---- MODULE Spec2Model ----
(***************************************************************************)
(* html-to-fsharp-dsl: the converter htmlToFalco of src/index.js, which    *)
(* walks the tree produced by htmlparser2.parseDocument and emits Falco    *)
(* markup DSL text.                                                        *)
(*                                                                         *)
(* A JavaScript string is modelled as the sequence of its characters, each *)
(* a string of its own, so that escaping, trimming and indentation are     *)
(* computed character by character.  A node of the parsed tree is a record *)
(*   [type, name, data, attribs, children]                                 *)
(* where attribs is the sequence Object.entries(node.attribs) would list   *)
(* (records [key, value]) and children the sequence node.children.         *)
(***************************************************************************)
EXTENDS Integers, Sequences, FiniteSets, TLC

VARIABLES
    pc,         \* position of the modelled run
    str,        \* SpecEscape: the string handed to escapeString / a text node
    escaped,    \* SpecEscape: what escapeString(str) returned
    emitted,    \* SpecEscape: what processNode returned for the text node
    attributes, \* SpecAttrs: the attribute map handed to mapAttributes
    props,      \* SpecAttrs: what mapAttributes returned
    element,    \* SpecAttrs: what processNode returned for an element carrying the map
    dom,        \* Spec, SpecWalk: the parsed document (the node of type "root")
    target,     \* Spec, SpecWalk: textContent of the target element
    page,       \* which of the elements #source and #target the page holds
    stack,      \* SpecWalk: the call stack of processNode, innermost frame last
    ret         \* SpecWalk: the value the last completed processNode call returned

vars == <<pc, str, escaped, emitted, attributes, props, element, dom, target, page, stack, ret>>

-----------------------------------------------------------------------------
(* Bounds of the model.                                                    *)

MaxLen == 3
MaxAttrs == 2
MaxNodes == 3

-----------------------------------------------------------------------------
(* Strings.                                                                *)

indentSize == 4

Lower == <<"a","b","c","d","e","f","g","h","i","j","k","l","m",
           "n","o","p","q","r","s","t","u","v","w","x","y","z">>

Upper == <<"A","B","C","D","E","F","G","H","I","J","K","L","M",
           "N","O","P","Q","R","S","T","U","V","W","X","Y","Z">>

\* the character class [a-z] of the regular expressions
IsLower(c) == \E i \in 1..26 : Lower[i] = c

\* String.prototype.toUpperCase on one character
toUpperCase(c) ==
    IF IsLower(c) THEN Upper[CHOOSE i \in 1..26 : Lower[i] = c] ELSE c

\* A character is a one-character string when it is an ASCII character, and
\* the string "U+XXXX" of its four hexadecimal digits when its code point
\* lies above U+007F: the text node "\u00e9a" is <<"U+00E9", "a">>.

\* the characters String.prototype.trim strips: the WhiteSpace code points of
\* ECMAScript (TAB, VT, FF, SP, NBSP, ZWNBSP and the category Zs) and its
\* LineTerminator code points (LF, CR, LS, PS)
WhiteSpace == {
    "\t", "\n", "", "\f", "\r", " ",
    "U+00A0", "U+1680",
    "U+2000", "U+2001", "U+2002", "U+2003", "U+2004", "U+2005",
    "U+2006", "U+2007", "U+2008", "U+2009", "U+200A",
    "U+2028", "U+2029", "U+202F", "U+205F", "U+3000", "U+FEFF"}

\* ' '.repeat(n)
RECURSIVE repeat(_, _)
repeat(c, n) == IF n <= 0 THEN <<>> ELSE <<c>> \o repeat(c, n - 1)

\* Array.prototype.join
RECURSIVE join(_, _)
join(parts, sep) ==
    IF parts = <<>> THEN <<>>
    ELSE IF Len(parts) = 1 THEN parts[1]
    ELSE parts[1] \o sep \o join(Tail(parts), sep)

\* str.replace(/c/g, by) for a one-character pattern
RECURSIVE replaceAll(_, _, _)
replaceAll(s, c, by) ==
    IF s = <<>> THEN <<>>
    ELSE (IF Head(s) = c THEN by ELSE <<Head(s)>>) \o replaceAll(Tail(s), c, by)

RECURSIVE trimStart(_)
trimStart(s) ==
    IF s # <<>> /\ Head(s) \in WhiteSpace THEN trimStart(Tail(s)) ELSE s

RECURSIVE trimEnd(_)
trimEnd(s) ==
    IF s # <<>> /\ s[Len(s)] \in WhiteSpace
    THEN trimEnd(SubSeq(s, 1, Len(s) - 1)) ELSE s

\* String.prototype.trim
trim(s) == trimEnd(trimStart(s))

\* str.replace(/-([a-z])/g, (_, char) => char.toUpperCase())
RECURSIVE toCamelCase(_)
toCamelCase(s) ==
    IF s = <<>> THEN <<>>
    ELSE IF Head(s) = "-" /\ Len(s) >= 2 /\ IsLower(s[2])
         THEN <<toUpperCase(s[2])>> \o toCamelCase(Tail(Tail(s)))
         ELSE <<Head(s)>> \o toCamelCase(Tail(s))

\* the replacements with the first two swapped: quotes before backslashes
escapeQuoteFirst(s) ==
    replaceAll(replaceAll(replaceAll(replaceAll(s,
        "\"", <<"\\", "\"">>),
        "\\", <<"\\", "\\">>),
        "\n", <<"\\", "n">>),
        "\r", <<"\\", "r">>)

\* the four chained replacements, in the order the code applies them
escapeString(s) ==
    replaceAll(replaceAll(replaceAll(replaceAll(s,
        "\\", <<"\\", "\\">>),
        "\"", <<"\\", "\"">>),
        "\n", <<"\\", "n">>),
        "\r", <<"\\", "r">>)

-----------------------------------------------------------------------------
(* Attributes.                                                             *)

booleanAttrs == {
    <<"a","l","l","o","w","f","u","l","l","s","c","r","e","e","n">>,
    <<"a","s","y","n","c">>,
    <<"a","u","t","o","f","o","c","u","s">>,
    <<"a","u","t","o","p","l","a","y">>,
    <<"c","h","e","c","k","e","d">>,
    <<"c","o","n","t","r","o","l","s">>,
    <<"d","e","f","a","u","l","t">>,
    <<"d","e","f","e","r">>,
    <<"d","i","s","a","b","l","e","d">>,
    <<"f","o","r","m","n","o","v","a","l","i","d","a","t","e">>,
    <<"h","i","d","d","e","n">>,
    <<"i","s","m","a","p">>,
    <<"i","t","e","m","s","c","o","p","e">>,
    <<"l","o","o","p">>,
    <<"m","u","l","t","i","p","l","e">>,
    <<"m","u","t","e","d">>,
    <<"n","o","m","o","d","u","l","e">>,
    <<"n","o","v","a","l","i","d","a","t","e">>,
    <<"o","p","e","n">>,
    <<"r","e","a","d","o","n","l","y">>,
    <<"r","e","q","u","i","r","e","d">>,
    <<"r","e","v","e","r","s","e","d">>,
    <<"s","e","l","e","c","t","e","d">>}

\* key.includes('-')
includes(s, c) == \E i \in 1..Len(s) : s[i] = c

\* /^on[a-z]+/.test(key)
isEventAttr(key) ==
    Len(key) >= 3 /\ key[1] = "o" /\ key[2] = "n" /\ IsLower(key[3])

\* the identifier the loop body computes for one key
attrKey(key) == IF includes(key, "-") THEN toCamelCase(key) ELSE key

\* a boolean attribute that keeps a non-empty value
mapAttributeValued(entry) ==
    IF entry.key \in booleanAttrs /\ entry.value = <<>>
    THEN <<"_">> \o attrKey(entry.key) \o <<"_">>
    ELSE <<"_">> \o attrKey(entry.key) \o <<"_", " ", "\"">>
             \o escapeString(entry.value) \o <<"\"">>

\* one iteration of the for loop of mapAttributes: the expression pushed
mapAttribute(entry) ==
    IF entry.key \in booleanAttrs
    THEN <<"_">> \o attrKey(entry.key) \o <<"_">>
    ELSE IF isEventAttr(entry.key)
         THEN <<"_">> \o attrKey(entry.key) \o <<"_", " ", "\"">>
                  \o escapeString(entry.value) \o <<"\"">>
         ELSE <<"_">> \o attrKey(entry.key) \o <<"_", " ", "\"">>
                  \o escapeString(entry.value) \o <<"\"">>

\* a loop that pushes in front of props instead of behind
mapAttributesReversed(attrs) ==
    [i \in 1..Len(attrs) |-> mapAttribute(attrs[Len(attrs) + 1 - i])]

mapAttributes(attrs) == [i \in 1..Len(attrs) |-> mapAttribute(attrs[i])]

\* the attribute position of an element: ` [ a; b ]` or ` []`
attributeList(attrs) ==
    IF Len(attrs) > 0
    THEN <<" ", "[", " ">> \o join(attrs, <<";", " ">>) \o <<" ", "]">>
    ELSE <<" ", "[", "]">>

-----------------------------------------------------------------------------
(* Nodes.                                                                  *)

\* the set with one name forgotten
selfEnclosingTagsWithoutBr == {
    <<"l","i","n","k">>, <<"m","e","t","a">>, <<"i","n","p","u","t">>,
    <<"i","m","g">>, <<"h","r">>, <<"a","r","e","a">>,
    <<"b","a","s","e">>, <<"c","o","l">>, <<"e","m","b","e","d">>,
    <<"s","o","u","r","c","e">>, <<"t","r","a","c","k">>, <<"w","b","r">>}

selfEnclosingTags == {
    <<"l","i","n","k">>, <<"m","e","t","a">>, <<"i","n","p","u","t">>,
    <<"i","m","g">>, <<"b","r">>, <<"h","r">>, <<"a","r","e","a">>,
    <<"b","a","s","e">>, <<"c","o","l">>, <<"e","m","b","e","d">>,
    <<"s","o","u","r","c","e">>, <<"t","r","a","c","k">>, <<"w","b","r">>}

nonEmpty(child) == child # <<>>

\* a filter that keeps every emission
keepAll(emissions) == emissions

\* .filter(child => child !== '')
filterNonEmpty(emissions) == SelectSeq(emissions, nonEmpty)

\* ' '.repeat((indentLevel + 1) * indentSize), indentLevel as it is at that line
indentPrefix(indentLevel) == repeat(" ", (indentLevel + 1) * indentSize)

\* ` [` + ' '.repeat(indentLevel * indentSize) + `\n${children.join('\n')} ]`
childList(children, indentLevel) ==
    <<" ", "[">> \o repeat(" ", indentLevel * indentSize)
        \o <<"\n">> \o join(children, <<"\n">>) \o <<" ", "]">>

\* the callback of the first map of the script branch
scriptChild(child) ==
    IF child.type = "text"
    THEN LET text == replaceAll(trim(child.data), "\"", <<"'">>)
         IN  IF text = <<>> THEN <<>>
             ELSE <<"_","t","e","x","t"," ","\"">> \o text \o <<"\"">>
    ELSE <<>>

\* the children array of the script branch: mapped, filtered, indented
scriptChildren(node) ==
    LET mapped == [i \in 1..Len(node.children) |-> scriptChild(node.children[i])]
        kept   == filterNonEmpty(mapped)
    IN  [i \in 1..Len(kept) |-> repeat(" ", indentSize) \o kept[i]]

\* the script branch of processNode
processScript(node) ==
    LET attrs    == mapAttributes(node.attribs)
        children == scriptChildren(node)
        scriptContent ==
            IF Len(children) > 0
            THEN <<"[", " ", "\n">> \o join(children, <<"\n">>) \o <<" ", "]">>
            ELSE <<"[", "]">>
    IN  <<"_","s","c","r","i","p","t">> \o
        (IF Len(attrs) > 0
         THEN <<" ", "[", " ">> \o join(attrs, <<";", " ">>) \o <<" ", "]", " ">>
                  \o scriptContent
         ELSE <<" ", "[", "]", " ">> \o scriptContent)

\* the text branch of processNode
processText(node) ==
    LET text == trim(node.data)
    IN  IF text = <<>> THEN <<>>
        ELSE <<"_","t","e","x","t"," ","\"">> \o escapeString(text) \o <<"\"">>

\* the second map of the tag branch: indentLevel++, prefix, indentLevel--
indentChild(child, indentLevel) ==
    LET inc == indentLevel + 1
    IN  indentPrefix(inc) \o child

\* the tail of the tag branch, given the indented emissions of the children
emitTag(node, indentLevel, children) ==
    <<"_">> \o node.name \o attributeList(mapAttributes(node.attribs)) \o
    (IF node.name \in selfEnclosingTags THEN <<>>
     ELSE IF Len(children) > 0
          THEN LET inc == indentLevel + 1
               IN  childList(children, inc)
          ELSE <<" ", "[", "]">>)

RECURSIVE processNode(_, _)
processNode(node, indentLevel) ==
    IF node.type = "text" THEN processText(node)
    ELSE IF node.type = "script" THEN processScript(node)
    ELSE IF node.type = "tag" THEN
        LET mapped == [i \in 1..Len(node.children) |->
                          processNode(node.children[i], indentLevel + 1)]
            kept   == filterNonEmpty(mapped)
            children == [i \in 1..Len(kept) |-> indentChild(kept[i], indentLevel)]
        IN  emitTag(node, indentLevel, children)
    ELSE <<>>

processDOM(d) ==
    join(filterNonEmpty([i \in 1..Len(d.children) |->
                            processNode(d.children[i], 0)]), <<"\n">>)

htmlToFalco(d) == processDOM(d)

-----------------------------------------------------------------------------
(* Values the variables hold while a specification does not use them.      *)

NoNode == [type |-> "none", name |-> <<>>, data |-> <<>>,
           attribs |-> <<>>, children |-> <<>>]

\* what parseDocument returns for the empty input: a root without children
EmptyDocument == [type |-> "root", name |-> <<>>, data |-> <<>>,
                  attribs |-> <<>>, children |-> <<>>]

NoReturn == [node |-> NoNode, indentLevel |-> 0, depth |-> 0, value |-> <<>>]

IdleEscape == str = <<>> /\ escaped = <<>> /\ emitted = <<>>
IdleAttrs  == attributes = <<>> /\ props = <<>> /\ element = <<>>
\* a page that holds both elements
FullPage == [source |-> TRUE, target |-> TRUE]

\* the pages the script may be loaded in
Pages == [source : BOOLEAN, target : BOOLEAN]

IdleDom    == dom = EmptyDocument /\ target = <<>> /\ page = FullPage
IdleWalk   == stack = <<>> /\ ret = NoReturn

-----------------------------------------------------------------------------
(* SpecEscape: escapeString and the text branch of processNode, applied to *)
(* every string of at most MaxLen characters over Alphabet.                *)

\* letters, the escaped characters, white space (SP, LF, CR, VT, NBSP and the
\* line separator U+2028), and two characters above U+007F that are not
\* white space (e-acute and the zero width space U+200B)
Alphabet == {"a", "n", " ", "\\", "\"", "\n", "\r", "",
             "U+00A0", "U+2028", "U+00E9", "U+200B"}

Strings(n) == UNION {[1..k -> Alphabet] : k \in 0..n}

TextNode(s) == [type |-> "text", name |-> <<>>, data |-> s,
                attribs |-> <<>>, children |-> <<>>]

InitEscape ==
    /\ pc = "start"
    /\ str \in Strings(MaxLen)
    /\ escaped = <<>> /\ emitted = <<>>
    /\ IdleAttrs /\ IdleDom /\ IdleWalk

CallEscapeString ==
    /\ pc = "start"
    /\ escaped' = escapeString(str)
    /\ pc' = "escaped"
    /\ UNCHANGED <<page, str, emitted, attributes, props, element, dom, target, stack, ret>>

CallProcessText ==
    /\ pc = "escaped"
    /\ emitted' = processNode(TextNode(str), 0)
    /\ pc' = "emitted"
    /\ UNCHANGED <<page, str, escaped, attributes, props, element, dom, target, stack, ret>>

NextEscape == CallEscapeString \/ CallProcessText

SpecEscape == InitEscape /\ [][NextEscape]_vars

-----------------------------------------------------------------------------
(* SpecAttrs: mapAttributes and the attribute position of an element,      *)
(* applied to every attribute map of at most MaxAttrs entries.             *)

AttrKeys == {
    <<"c","h","e","c","k","e","d">>,
    <<"o","p","e","n">>,
    <<"c","l","a","s","s">>,
    <<"o","n","c","l","i","c","k">>,
    <<"h","t","t","p","-","e","q","u","i","v">>,
    <<"a","r","i","a","-","l","a","b","e","l","l","e","d","-","b","y">>,
    <<"d","a","t","a","-","1">>,
    <<"x","-","-","y">>}

AttrValues == {<<>>, <<"t","r","u","e">>, <<"a", "\"", "\\">>}

Entries == [key : AttrKeys, value : AttrValues]

\* an object holds a key once; the sequence is its iteration order
AttributeMaps ==
    UNION {{m \in [1..k -> Entries] :
               \A i, j \in 1..k : i # j => m[i].key # m[j].key} : k \in 0..MaxAttrs}

Element(tagName, attrs, kids) ==
    [type |-> "tag", name |-> tagName, data |-> <<>>,
     attribs |-> attrs, children |-> kids]

InitAttrs ==
    /\ pc = "start"
    /\ attributes \in AttributeMaps
    /\ props = <<>> /\ element = <<>>
    /\ IdleEscape /\ IdleDom /\ IdleWalk

CallMapAttributes ==
    /\ pc = "start"
    /\ props' = mapAttributes(attributes)
    /\ pc' = "mapped"
    /\ UNCHANGED <<page, str, escaped, emitted, attributes, element, dom, target, stack, ret>>

CallProcessElement ==
    /\ pc = "mapped"
    /\ element' = processNode(Element(<<"d","i","v">>, attributes, <<>>), 0)
    /\ pc' = "emitted"
    /\ UNCHANGED <<page, str, escaped, emitted, attributes, props, dom, target, stack, ret>>

NextAttrs == CallMapAttributes \/ CallProcessElement

SpecAttrs == InitAttrs /\ [][NextAttrs]_vars

-----------------------------------------------------------------------------
(* Properties of escapeString and of the text branch (SpecEscape).         *)

isPrefix(p, s) == Len(p) <= Len(s) /\ SubSeq(s, 1, Len(p)) = p

\* what the escaper is documented to make of one character
EscapedChar(c) ==
    CASE c = "\\" -> <<"\\", "\\">>
      [] c = "\"" -> <<"\\", "\"">>
      [] c = "\n" -> <<"\\", "n">>
      [] c = "\r" -> <<"\\", "r">>
      [] OTHER    -> <<c>>

\* every character replaced in place, each exactly once
EscapedInPlace(s) == join([i \in 1..Len(s) |-> EscapedChar(s[i])], <<>>)

IsBlank(s) == \A i \in 1..Len(s) : s[i] \in WhiteSpace

\* s without its leading and trailing white space, for s not blank
Trimmed(s) ==
    LET first == CHOOSE i \in 1..Len(s) :
                     s[i] \notin WhiteSpace /\ \A k \in 1..(i - 1) : s[k] \in WhiteSpace
        last  == CHOOSE j \in 1..Len(s) :
                     s[j] \notin WhiteSpace /\ \A k \in (j + 1)..Len(s) : s[k] \in WhiteSpace
    IN  SubSeq(s, first, last)

\* C8: escapeString replaces backslash, double quote, newline and carriage
\* return by their two-character escapes, in that order, so that each
\* character of the input is escaped in place exactly once and every other
\* character is unchanged; a text node whose payload is not blank emits
\* _text "<escape(trim(payload))>", the payload escaped exactly once.
C8_EscapeOnceInOrder ==
    /\ pc \in {"escaped", "emitted"} => escaped = EscapedInPlace(str)
    /\ (pc = "emitted" /\ ~IsBlank(str)) =>
           emitted = <<"_","t","e","x","t"," ","\"">>
                         \o EscapedInPlace(Trimmed(str)) \o <<"\"">>

C8_Witness ==
    /\ pc = "emitted"
    /\ Len(str) = 3
    /\ str[1] \in WhiteSpace
    /\ str[2] = "\""
    /\ str[3] = "\\"
    /\ emitted = <<"_","t","e","x","t"," ","\"", "\\","\"", "\\","\\", "\"">>

-----------------------------------------------------------------------------
(* Properties of mapAttributes (SpecAttrs).                                *)

\* every hyphen deleted and the character that follows it upper-cased
RECURSIVE HyphensToCamel(_, _)
HyphensToCamel(s, raise) ==
    IF s = <<>> THEN <<>>
    ELSE IF Head(s) = "-" THEN HyphensToCamel(Tail(s), TRUE)
    ELSE <<IF raise THEN toUpperCase(Head(s)) ELSE Head(s)>>
             \o HyphensToCamel(Tail(s), FALSE)

\* the identifier an attribute expression starts with: all up to the first space
EmittedIdentifier(prop) ==
    IF includes(prop, " ")
    THEN SubSeq(prop, 1, (CHOOSE i \in 1..Len(prop) :
                              prop[i] = " " /\ \A k \in 1..(i - 1) : prop[k] # " ") - 1)
    ELSE prop

\* C4: for every attribute name that contains a hyphen the emitted identifier
\* is the name with each hyphen deleted and the following character
\* upper-cased, hence without any hyphen; a name without a hyphen is emitted
\* unchanged.
C4_EveryHyphenRemoved ==
    pc \in {"mapped", "emitted"} =>
        \A i \in 1..Len(attributes) :
            /\ EmittedIdentifier(props[i]) =
                   <<"_">> \o HyphensToCamel(attributes[i].key, FALSE) \o <<"_">>
            /\ includes(attributes[i].key, "-") =>
                   ~includes(EmittedIdentifier(props[i]), "-")

\* C5: an attribute whose original name is in the boolean set is emitted as
\* the bare identifier _<camelCasedName>_ whatever its value; every other
\* attribute is emitted as _<identifier>_ "<escape(value)>".
C5_BooleanBareOthersQuoted ==
    pc \in {"mapped", "emitted"} =>
        \A i \in 1..Len(attributes) :
            LET key   == attributes[i].key
                value == attributes[i].value
            IN  IF key \in booleanAttrs
                THEN props[i] = <<"_">> \o toCamelCase(key) \o <<"_">>
                ELSE props[i] = <<"_">> \o attrKey(key) \o <<"_", " ", "\"">>
                                    \o EscapedInPlace(value) \o <<"\"">>

C5_Witness ==
    /\ pc = "mapped"
    /\ \E i, j \in 1..Len(attributes) :
          /\ attributes[i].key \in booleanAttrs
          /\ attributes[i].value = <<"t","r","u","e">>
          /\ props[i] = <<"_">> \o attributes[i].key \o <<"_">>
          /\ attributes[j].key \notin booleanAttrs
          /\ attributes[j].value # <<>>

\* C6: mapAttributes returns one expression per entry of the map, in the
\* order of the entries; the empty map yields the empty sequence and the
\* element then shows [] in the attribute position.
C6_OnePerEntryInOrder ==
    /\ pc \in {"mapped", "emitted"} =>
           /\ Len(props) = Len(attributes)
           /\ \A i \in 1..Len(attributes) :
                  isPrefix(<<"_">> \o attrKey(attributes[i].key) \o <<"_">>, props[i])
    /\ pc = "emitted" =>
           element = <<"_","d","i","v">> \o
               (IF attributes = <<>> THEN <<" ", "[", "]">>
                ELSE <<" ", "[", " ">> \o join(props, <<";", " ">>) \o <<" ", "]">>)
               \o <<" ", "[", "]">>

C6_Witness ==
    /\ pc = "emitted"
    /\ Len(attributes) >= 2
    /\ Len(props) = Len(attributes)
    /\ attributes[1].key = <<"c","l","a","s","s">>
    /\ attributes[2].key \in booleanAttrs

-----------------------------------------------------------------------------
(* Documents.  A document is the root node parseDocument returns; its      *)
(* nodes are drawn from a set of leaves (text and comment nodes) and a set *)
(* of shells (element and script nodes, to be given children), and it has  *)
(* at most MaxNodes nodes below the root.  The converter reads the tree    *)
(* only; trees the HTML parser would not build (a void element with        *)
(* children) are part of its domain and are included.                      *)

Comment == [type |-> "comment", name |-> <<>>, data |-> <<"c">>,
            attribs |-> <<>>, children |-> <<>>]

Script == [type |-> "script", name |-> <<"s","c","r","i","p","t">>, data |-> <<>>,
           attribs |-> <<>>, children |-> <<>>]

Div == <<"d","i","v">>
Br  == <<"b","r">>

RECURSIVE TreesOfSize(_, _, _)
RECURSIVE ForestsOfSize(_, _, _)

\* the trees of exactly n nodes
TreesOfSize(n, leaves, shells) ==
    (IF n = 1 THEN leaves ELSE {}) \cup
    {[s EXCEPT !.children = f] : s \in shells, f \in ForestsOfSize(n - 1, leaves, shells)}

\* the sequences of trees of exactly n nodes together
ForestsOfSize(n, leaves, shells) ==
    IF n = 0 THEN {<<>>}
    ELSE UNION {{<<t>> \o f : t \in TreesOfSize(k, leaves, shells),
                              f \in ForestsOfSize(n - k, leaves, shells)} : k \in 1..n}

Documents(leaves, shells) ==
    {[EmptyDocument EXCEPT !.children = f] :
        f \in UNION {ForestsOfSize(n, leaves, shells) : n \in 0..MaxNodes}}

-----------------------------------------------------------------------------
(* Spec: the change listener.  dom is what parseDocument makes of the      *)
(* value of the source element; the listener, when the page holds both     *)
(* elements, converts it and stores the result as the text of the target.  *)

DocTexts == {<<" ">>, <<"a">>, <<"1", "<", "2">>, <<"c", ":", "\\">>}

DocLeaves == {TextNode(t) : t \in DocTexts} \cup {Comment}

DocShells == {
    Element(Div, <<>>, <<>>),
    Element(Div, <<[key |-> <<"t","i","t","l","e">>, value |-> <<"a", ">", "b">>]>>, <<>>),
    Element(Br, <<>>, <<>>),
    Script}

Init ==
    /\ pc = "idle"
    /\ dom \in Documents(DocLeaves, DocShells)
    /\ target = <<>>
    /\ page \in Pages
    /\ IdleEscape /\ IdleAttrs /\ IdleWalk

\* sourceElement's change listener, with parseDocument(evt.target.value) = dom.
\* Without #source no listener is registered; without #target the listener
\* returns before it converts anything.
Change ==
    /\ pc = "idle"
    /\ page.source
    /\ IF page.target
       THEN target' = htmlToFalco(dom) /\ pc' = "done"
       ELSE target' = target /\ pc' = "returned"
    /\ UNCHANGED <<page, str, escaped, emitted, attributes, props, element, dom, stack, ret>>

Next == Change

Spec == Init /\ [][Next]_vars

-----------------------------------------------------------------------------
(* Properties of the converted text (Spec).                                *)

\* C2: the output of the conversion contains neither < nor >, whatever the
\* text payloads and attribute values of the tree contain.
C2_NoAngleBrackets ==
    pc = "done" => ~includes(target, "<") /\ ~includes(target, ">")

\* A scan of DSL text: inside a double-quoted literal a backslash escapes the
\* next character and an unescaped quote ends the literal; outside literals
\* brackets nest.  ScanStep is the scanner's move on one character.
ScanStart == [inLiteral |-> FALSE, escapeNext |-> FALSE, depth |-> 0, ok |-> TRUE]

ScanStep(st, c) ==
    IF st.inLiteral THEN
        IF st.escapeNext THEN [st EXCEPT !.escapeNext = FALSE]
        ELSE IF c = "\\" THEN [st EXCEPT !.escapeNext = TRUE]
        ELSE IF c = "\"" THEN [st EXCEPT !.inLiteral = FALSE]
        ELSE st
    ELSE IF c = "\"" THEN [st EXCEPT !.inLiteral = TRUE]
    ELSE IF c = "[" THEN [st EXCEPT !.depth = @ + 1]
    ELSE IF c = "]" THEN [st EXCEPT !.depth = @ - 1, !.ok = st.ok /\ st.depth > 0]
    ELSE st

\* the scanner run over s[lo..hi] from state st; the state reached at the
\* middle is bound as a value before the second half is scanned
RECURSIVE Scan(_, _, _, _)
Scan(s, lo, hi, st) ==
    IF lo > hi THEN st
    ELSE IF lo = hi THEN ScanStep(st, s[lo])
    ELSE LET mid == (lo + hi) \div 2
         IN  CHOOSE end \in {Scan(s, mid + 1, hi, half) :
                                half \in {Scan(s, lo, mid, st)}} : TRUE

\* the text ends outside any literal, with every bracket matched
Balanced(s) ==
    LET end == Scan(s, 1, Len(s), ScanStart)
    IN  end.ok /\ ~end.inLiteral /\ end.depth = 0

\* C3: the output of the conversion is balanced for every tree: each literal
\* the emitter opens is closed by an unescaped double quote and, outside
\* literals, every [ has its ].
C3_OutputBalanced ==
    pc = "done" => Balanced(target)

-----------------------------------------------------------------------------
(* SpecWalk: the same conversion, on a page with both elements, one source *)
(* line at a time.  stack holds                                            *)
(* one frame per active call: stack[1] is processDOM, stack[k] for k > 1   *)
(* a call of processNode with its own parameter indentLevel and its own    *)
(* locals.  A frame's pc names the line the call is about to execute.      *)

WalkLeaves == {TextNode(<<"a">>), TextNode(<<" ">>), Comment}

WalkShells == {
    Element(Div, <<>>, <<>>),
    Element(Br, <<[key |-> <<"i","d">>, value |-> <<"b">>]>>, <<>>),
    Script}

Frame(node, indentLevel, at) ==
    [node |-> node, indentLevel |-> indentLevel, pc |-> at,
     mapped |-> <<>>, kept |-> <<>>, children |-> <<>>, element |-> <<>>]

top == stack[Len(stack)]

\* the running call moves on with some of its locals changed
Step(frame) ==
    /\ stack' = [stack EXCEPT ![Len(stack)] = frame]
    /\ UNCHANGED <<page, pc, str, escaped, emitted, attributes, props, element, dom, target, ret>>

\* a call of processNode(node, indentLevel) from the running map callback
Call(node, indentLevel) ==
    /\ stack' = Append(stack, Frame(node, indentLevel, "enter"))
    /\ UNCHANGED <<page, pc, str, escaped, emitted, attributes, props, element, dom, target, ret>>

\* the running call returns value: the caller's map stores it
Return(value) ==
    /\ stack' = [SubSeq(stack, 1, Len(stack) - 1)
                     EXCEPT ![Len(stack) - 1].mapped = Append(@, value)]
    /\ ret' = [node |-> top.node, indentLevel |-> top.indentLevel,
               depth |-> Len(stack) - 2, value |-> value]
    /\ UNCHANGED <<page, pc, str, escaped, emitted, attributes, props, element, dom, target>>

InitWalk ==
    /\ pc = "walk"
    /\ dom \in Documents(WalkLeaves, WalkShells)
    /\ target = <<>>
    /\ page = FullPage
    /\ stack = <<Frame(dom, 0, "dom")>>
    /\ ret = NoReturn
    /\ IdleEscape /\ IdleAttrs

\* processDOM: dom.children.map(child => processNode(child, 0))
DomCall ==
    /\ pc = "walk" /\ top.pc = "dom"
    /\ Len(top.mapped) < Len(dom.children)
    /\ Call(dom.children[Len(top.mapped) + 1], 0)

\* processDOM: .filter(node => node !== '').join('\n'), stored by the listener
DomJoin ==
    /\ pc = "walk" /\ top.pc = "dom"
    /\ Len(top.mapped) = Len(dom.children)
    /\ target' = join(filterNonEmpty(top.mapped), <<"\n">>)
    /\ pc' = "done"
    /\ stack' = <<>>
    /\ UNCHANGED <<page, str, escaped, emitted, attributes, props, element, dom, ret>>

TextBranch ==
    /\ pc = "walk" /\ top.pc = "enter" /\ top.node.type = "text"
    /\ Return(processText(top.node))

ScriptBranch ==
    /\ pc = "walk" /\ top.pc = "enter" /\ top.node.type = "script"
    /\ Return(processScript(top.node))

\* the final return '' of processNode
OtherBranch ==
    /\ pc = "walk" /\ top.pc = "enter"
    /\ top.node.type \notin {"text", "script", "tag"}
    /\ Return(<<>>)

\* let element = `_${node.name}`
TagBranch ==
    /\ pc = "walk" /\ top.pc = "enter" /\ top.node.type = "tag"
    /\ Step([top EXCEPT !.element = <<"_">> \o top.node.name, !.pc = "map"])

\* node.children.map(child => processNode(child, indentLevel + 1))
ChildCall ==
    /\ pc = "walk" /\ top.pc = "map"
    /\ Len(top.mapped) < Len(top.node.children)
    /\ Call(top.node.children[Len(top.mapped) + 1], top.indentLevel + 1)

\* .filter(child => child !== '')
FilterChildren ==
    /\ pc = "walk" /\ top.pc = "map"
    /\ Len(top.mapped) = Len(top.node.children)
    /\ Step([top EXCEPT !.kept = filterNonEmpty(top.mapped), !.pc = "indent"])

\* indentLevel++ of the second map callback
IndentInc ==
    /\ pc = "walk" /\ top.pc = "indent"
    /\ Len(top.children) < Len(top.kept)
    /\ Step([top EXCEPT !.indentLevel = @ + 1, !.pc = "prefix"])

\* const indentedChild = ' '.repeat((indentLevel + 1) * indentSize) + child
IndentChild ==
    /\ pc = "walk" /\ top.pc = "prefix"
    /\ Step([top EXCEPT
                !.children = Append(@, indentPrefix(top.indentLevel)
                                           \o top.kept[Len(top.children) + 1]),
                !.pc = "unindent"])

\* a callback that returns without undoing its increment
IndentDecSkipped ==
    /\ pc = "walk" /\ top.pc = "unindent"
    /\ Step([top EXCEPT !.pc = "indent"])

\* indentLevel--; return indentedChild
IndentDec ==
    /\ pc = "walk" /\ top.pc = "unindent"
    /\ Step([top EXCEPT !.indentLevel = @ - 1, !.pc = "indent"])

\* the attribute position, once every kept child is indented
AttributePosition ==
    /\ pc = "walk" /\ top.pc = "indent"
    /\ Len(top.children) = Len(top.kept)
    /\ Step([top EXCEPT
                !.element = @ \o attributeList(mapAttributes(top.node.attribs)),
                !.pc = "tail"])

\* if (selfEnclosingTags.has(node.name)) return element
ReturnVoid ==
    /\ pc = "walk" /\ top.pc = "tail"
    /\ top.node.name \in selfEnclosingTags
    /\ Return(top.element)

\* else if (children.length > 0) { indentLevel++
ListInc ==
    /\ pc = "walk" /\ top.pc = "tail"
    /\ top.node.name \notin selfEnclosingTags
    /\ Len(top.children) > 0
    /\ Step([top EXCEPT !.indentLevel = @ + 1, !.pc = "list"])

\* element += ' ['; element += ' '.repeat(...) + `\n${children.join('\n')} ]`
ListEmit ==
    /\ pc = "walk" /\ top.pc = "list"
    /\ Step([top EXCEPT !.element = @ \o childList(top.children, top.indentLevel),
                        !.pc = "listed"])

\* indentLevel-- }
ListDec ==
    /\ pc = "walk" /\ top.pc = "listed"
    /\ Step([top EXCEPT !.indentLevel = @ - 1, !.pc = "return"])

\* else { element += ' []' }
EmptyList ==
    /\ pc = "walk" /\ top.pc = "tail"
    /\ top.node.name \notin selfEnclosingTags
    /\ Len(top.children) = 0
    /\ Step([top EXCEPT !.element = @ \o <<" ", "[", "]">>, !.pc = "return"])

\* return element
ReturnElement ==
    /\ pc = "walk" /\ top.pc = "return"
    /\ Return(top.element)

NextWalk ==
    \/ DomCall \/ DomJoin
    \/ TextBranch \/ ScriptBranch \/ OtherBranch \/ TagBranch
    \/ ChildCall \/ FilterChildren
    \/ IndentInc \/ IndentChild \/ IndentDec
    \/ AttributePosition
    \/ ReturnVoid \/ ListInc \/ ListEmit \/ ListDec \/ EmptyList
    \/ ReturnElement

SpecWalk == InitWalk /\ [][NextWalk]_vars

\* the walk line by line and the conversion in one step give the same text
WalkAgrees == pc = "done" => target = htmlToFalco(dom)

-----------------------------------------------------------------------------
(* Properties of the walk (SpecWalk).  ret describes the call of           *)
(* processNode that returned last: its node, the value of its indentLevel  *)
(* when it returned, the number of its ancestors (depth) and its emission. *)

\* the void set the specification names
VoidElements == {
    <<"a","r","e","a">>, <<"b","a","s","e">>, <<"b","r">>, <<"c","o","l">>,
    <<"e","m","b","e","d">>, <<"h","r">>, <<"i","m","g">>, <<"i","n","p","u","t">>,
    <<"l","i","n","k">>, <<"m","e","t","a">>, <<"s","o","u","r","c","e">>,
    <<"t","r","a","c","k">>, <<"w","b","r">>}

\* the children that show in the output: elements, scripts and texts that
\* are not blank
Emits(child) ==
    \/ child.type \in {"tag", "script"}
    \/ child.type = "text" /\ ~IsBlank(child.data)

\* the number of spaces a line starts with
LeadingSpaces(line) ==
    IF \A i \in 1..Len(line) : line[i] = " " THEN Len(line)
    ELSE (CHOOSE i \in 1..Len(line) :
              line[i] # " " /\ \A k \in 1..(i - 1) : line[k] = " ") - 1

\* C1: a void element emits exactly _<name> <attributeList>, without a child
\* list, whatever children it carries.
C1_VoidHasNoChildList ==
    (ret.node.type = "tag" /\ ret.node.name \in VoidElements) =>
        ret.value = <<"_">> \o ret.node.name
                        \o attributeList(mapAttributes(ret.node.attribs))

C1_Witness ==
    /\ ret.node.type = "tag"
    /\ ret.node.name = Br
    /\ Len(ret.node.children) = 2
    /\ ret.node.children[1] = TextNode(<<"a">>)
    /\ ret.node.children[2].type = "tag"
    /\ ret.depth = 0
    /\ ret.value = <<"_","b","r"," ","["," ","_","i","d","_"," ","\"","b","\""," ","]">>

\* C7: a non-void element shows a bracketed list of its children exactly
\* when one of them emits something, and [] otherwise; blank texts and nodes
\* of unrecognised kinds are neither emitted nor counted, and the children
\* that are emitted stand in document order.
C7_ChildListIffSomeChildEmits ==
    (ret.node.type = "tag" /\ ret.node.name \notin VoidElements) =>
        LET shown == SelectSeq(ret.node.children, Emits)
            lines == [j \in 1..Len(shown) |->
                         repeat(" ", (ret.depth + 2) * indentSize)
                             \o processNode(shown[j], ret.depth + 1)]
            head  == <<"_">> \o ret.node.name
                         \o attributeList(mapAttributes(ret.node.attribs))
        IN  IF shown = <<>>
            THEN ret.value = head \o <<" ", "[", "]">>
            ELSE ret.value = head \o <<" ", "[">>
                                 \o repeat(" ", (ret.depth + 1) * indentSize)
                                 \o <<"\n">> \o join(lines, <<"\n">>) \o <<" ", "]">>

C7_Witness ==
    /\ ret.node.type = "tag"
    /\ ret.node.name = Div
    /\ ret.node.children = <<TextNode(<<" ">>), TextNode(<<"a">>)>>
    /\ ret.depth = 0
    /\ ret.value = <<"_","d","i","v"," ","[","]"," ","["," "," "," "," ","\n">>
                        \o repeat(" ", 8)
                        \o <<"_","t","e","x","t"," ","\"","a","\""," ","]">>

\* C9: the depth a call works with is the number of its ancestors: a child
\* of a call at depth d is called with d + 1, every increment of indentLevel
\* is undone before the next sibling is handled and before the call returns,
\* and the prefix given to a child depends on d alone, not on its position
\* among its siblings.
C9_DepthIsAncestorCount ==
    /\ \A k \in 2..Len(stack) :
          LET frame == stack[k]
              d     == k - 2
          IN  /\ frame.indentLevel =
                     IF frame.pc \in {"prefix", "unindent", "list", "listed"}
                     THEN d + 1 ELSE d
              /\ \A j \in 1..Len(frame.children) :
                     LeadingSpaces(frame.children[j]) = (d + 2) * indentSize
    /\ ret.indentLevel = ret.depth

C9_Witness ==
    /\ Len(stack) = 2
    /\ stack[2].pc = "indent"
    /\ stack[2].indentLevel = 0
    /\ Len(stack[2].node.children) = 2
    /\ Len(stack[2].children) = 2
    /\ LeadingSpaces(stack[2].children[1]) = 8
    /\ LeadingSpaces(stack[2].children[2]) = 8
    /\ ret.depth = 1
    /\ ret.indentLevel = 1

\* C10: every emitted child is prefixed with depth x 4 spaces, depth being
\* 0 for the children of the root and one more per descent, for the
\* children of elements and for the text children of scripts alike.
C10_PrefixIsDepthTimesIndent ==
    /\ stack # <<>> =>
          \A i \in 1..Len(stack[1].mapped) : LeadingSpaces(stack[1].mapped[i]) = 0
    /\ \A k \in 2..Len(stack) :
          \A j \in 1..Len(stack[k].children) :
              LeadingSpaces(stack[k].children[j]) = ((k - 2) + 1) * indentSize
    /\ ret.node.type = "script" =>
          \A j \in 1..Len(scriptChildren(ret.node)) :
              LeadingSpaces(scriptChildren(ret.node)[j]) = (ret.depth + 1) * indentSize

\* the consequence C10 draws for scripts: below the top level, the lines of
\* a script's texts are indented further than the script's own line
C10_ScriptTextDeeper ==
    (ret.node.type = "script" /\ ret.depth >= 1) =>
        \A j \in 1..Len(scriptChildren(ret.node)) :
            LeadingSpaces(scriptChildren(ret.node)[j]) > (ret.depth + 1) * indentSize

====
